---- MODULE Spec2Model ----
(***************************************************************************)
(* Batch lookup of questions (server/src/questions.rs): the two variants   *)
(* of Backend::questions (the remote DynamoDB adapter and the in-memory    *)
(* Local mock) and the HTTP handler `questions` that consumes them.        *)
(*                                                                         *)
(* Option<T> is a sequence of length 0 (None) or 1 (Some).  A HashMap is a *)
(* function whose DOMAIN is its key set.  A Vec is a sequence.             *)
(***************************************************************************)
EXTENDS Integers, Sequences, FiniteSets, TLC

\* ---------------------------------------------------------------- bounds
NumIds == 2
MaxReq == 3
MaxPath == 2
MaxRecs == 2
MaxOps == 4

\* ------------------------------------------------------------ data model
None == <<>>
Some(x) == <<x>>

Uuids == 1..NumIds
Texts == {"hello world", "hello moon"}

\* Sample clock readings (seconds) and the numbers a decimal string can hold.
Times == {0, 1}
Numbers == 0..2

\* Uuid::to_string: the canonical (lower-case, hyphenated) form.
UuidToString(q) == "u" \o ToString(q)

\* A second textual form Uuid::parse_str accepts (upper case).
UuidAltString(q) == "U" \o ToString(q)

\* Uuid::parse_str(..).ok(): Some(uuid) for either accepted form, else None.
UuidParseStr(s) ==
    IF \E q \in Uuids : s = UuidToString(q) \/ s = UuidAltString(q)
    THEN Some(CHOOSE q \in Uuids : s = UuidToString(q) \/ s = UuidAltString(q))
    ELSE None

\* str::parse::<usize>().ok(): decimal digits with an optional leading plus.
ParseUsize(s) ==
    IF \E n \in Numbers : s = ToString(n) \/ s = "+" \o ToString(n)
    THEN Some(CHOOSE n \in Numbers : s = ToString(n) \/ s = "+" \o ToString(n))
    ELSE None

\* AttributeValue::S / AttributeValue::N (a number travels as a string).
AttrS(s) == [t |-> "S", v |-> s]
AttrN(n) == [t |-> "N", v |-> n]

\* SystemTime -> seconds, rendered as a decimal string.
WhenString(n) == ToString(n)

\* The key tuple {id: S(qid.to_string())} both variants build for one id.
KeyTuple(qid) == [k \in {"id"} |-> AttrS(UuidToString(qid))]

\* All request lists: ordered, duplicates allowed.
Requests == UNION {[1..n -> Uuids] : n \in 0..MaxReq}

\* ------------------------------------------------------ Backend::questions
\* Mutant: one key tuple per distinct absent id instead of one per occurrence.
UnprocessedKeysDedup(questions, qs) ==
    LET idx == {i \in 1..Len(qs) :
                  /\ qs[i] \notin DOMAIN questions
                  /\ \A j \in 1..(i - 1) : qs[j] # qs[i]}
        F[i \in 0..Len(qs)] ==
            IF i = 0 THEN <<>>
            ELSE IF i \in idx THEN Append(F[i - 1], KeyTuple(qs[i])) ELSE F[i - 1]
    IN F[Len(qs)]

\* Backend::questions, Local: the ids not keyed in the table, as key tuples.
UnprocessedKeys(questions, qs) ==
    LET absent == SelectSeq(qs, LAMBDA q : q \notin DOMAIN questions)
    IN [i \in 1..Len(absent) |-> KeyTuple(absent[i])]

\* KeysAndAttributes::builder().set_keys(..).projection_expression(..).build()
KeysAndAttributes(keys, projection, names) ==
    [keys |-> keys, projection_expression |-> projection,
     expression_attribute_names |-> names]

\* Mutant: the field is always set, also with an empty key list.
UnprocessedFieldAlways(questions, qs) ==
    Some([tbl \in {"questions"} |->
            KeysAndAttributes(Some(UnprocessedKeys(questions, qs)),
                              Some("text,when"), None)])

\* Backend::questions, Local: None when nothing is unprocessed, else
\* Some({"questions": KeysAndAttributes}).
UnprocessedField(questions, qs) ==
    LET unprocessed == UnprocessedKeys(questions, qs)
    IN IF unprocessed = <<>>
       THEN None
       ELSE Some([tbl \in {"questions"} |->
                    KeysAndAttributes(Some(unprocessed), Some("text,when"), None)])

\* Mutant: the stored record is cloned without the filter.
ProjectRecordUnfiltered(rec) == rec

\* The filter over a stored record's attributes.
ProjectRecord(rec) ==
    [k \in (DOMAIN rec) \cap {"id", "text", "when"} |-> rec[k]]

\* Mutant: every found occurrence yields the record of the first found id.
ResponseItemsFirst(questions, qs) ==
    LET found == SelectSeq(qs, LAMBDA q : q \in DOMAIN questions)
    IN [i \in 1..Len(found) |-> ProjectRecord(questions[found[1]])]

\* Backend::questions, Local: filter_map over the requested ids.
ResponseItems(questions, qs) ==
    LET found == SelectSeq(qs, LAMBDA q : q \in DOMAIN questions)
    IN [i \in 1..Len(found) |-> ProjectRecord(questions[found[i]])]

\* Result<BatchGetItemOutput, SdkError>
Ok(v) == [ok |-> Some(v), err |-> None]
Err(e) == [ok |-> None, err |-> Some(e)]

BatchGetItemOutput(responses, unprocessed) ==
    [responses |-> responses, unprocessed_keys |-> unprocessed]

\* Mutant: an id that is not keyed makes the call fail.
LocalQuestionsStrict(questions, qs) ==
    IF UnprocessedKeys(questions, qs) # <<>>
    THEN Err("ResourceNotFound")
    ELSE Ok(BatchGetItemOutput(
              Some([tbl \in {"questions"} |-> ResponseItems(questions, qs)]),
              None))

\* Backend::questions, Local: the value returned.
LocalQuestions(questions, qs) ==
    Ok(BatchGetItemOutput(
         Some([tbl \in {"questions"} |-> ResponseItems(questions, qs)]),
         UnprocessedField(questions, qs)))

\* ------------------------------------------------------------------ state
VARIABLES
    store,      \* Local.questions: HashMap<Uuid, HashMap<&str, AttributeValue>>
    asked,      \* history: the text last written for each id still stored
    qids,       \* the ids of the latest Backend::questions call
    out,        \* Option of the latest call's return value; None once a
                \* writer ran after the call
    repeat,     \* TRUE iff the latest call repeated the one before it, same
                \* ids, with no writer in between
    backend,    \* the Backend variant, bound at construction
    hpc,        \* the handler `questions`: "idle" or "done"
    resp,       \* Option of the handler's Result<Json<Value>, StatusCode>
    rpc,        \* Backend::questions, Dynamo: "idle", "await" or "done"
    sent,       \* the batch_get_item calls this invocation has issued
    reply,      \* Option of what the store answered to the latest call
    pc,         \* per task: "idle", "lock" (blocked in lock()), "scan",
                \* "build", "write" or "done"
    mutex,      \* Option of the task holding the table's Mutex
    creq,       \* per reader: the ids of its call
    snap,       \* history, per reader: the table when it acquired the lock
    cunp,       \* per reader: the local `unprocessed`
    cout,       \* per reader: Option of the value its call returned
    ops         \* operations started so far

mockVars == <<store, asked, qids, out, repeat>>
handlerVars == <<backend, hpc, resp>>
remoteVars == <<rpc, sent, reply>>
concVars == <<pc, mutex, creq, snap, cunp, cout, ops>>
vars == <<store, asked, qids, out, repeat, backend, hpc, resp, rpc, sent, reply,
          pc, mutex, creq, snap, cunp, cout, ops>>

\* The tasks sharing one Backend::Local: two calls of questions and a writer.
Readers == {"r1", "r2"}
Writers == {"w1"}
Tasks == Readers \cup Writers

TypeOK ==
    /\ DOMAIN store \subseteq Uuids
    /\ DOMAIN asked = DOMAIN store
    /\ qids \in Requests
    /\ Len(out) <= 1
    /\ repeat \in BOOLEAN
    /\ backend \in {"Local", "Dynamo"}
    /\ hpc \in {"idle", "done"}
    /\ Len(resp) <= 1
    /\ rpc \in {"idle", "await", "done"}
    /\ Len(reply) <= 1
    /\ pc \in [Tasks -> {"idle", "lock", "scan", "build", "write", "done"}]
    /\ Len(mutex) <= 1
    /\ ops \in 0..MaxOps

\* Backend::local(): an empty table.
InitLocal ==
    /\ store = <<>>
    /\ asked = <<>>
    /\ qids = <<>>
    /\ out = None
    /\ repeat = FALSE

InitHandler ==
    /\ hpc = "idle"
    /\ resp = None

InitRemote ==
    /\ rpc = "idle"
    /\ sent = <<>>
    /\ reply = None

InitConc ==
    /\ pc = [p \in Tasks |-> "idle"]
    /\ mutex = None
    /\ creq = [p \in Readers |-> <<>>]
    /\ snap = [p \in Readers |-> <<>>]
    /\ cunp = [p \in Readers |-> None]
    /\ cout = [p \in Readers |-> None]
    /\ ops = 0

Init ==
    /\ InitLocal
    /\ backend = "Local"
    /\ InitHandler
    /\ InitRemote
    /\ InitConc

\* The record Backend::ask stores for a question.
QuestionRecord(eid, qid, text, now) ==
    [k \in {"id", "eid", "votes", "text", "when"} |->
        CASE k = "id" -> AttrS(UuidToString(qid))
          [] k = "eid" -> AttrS(eid)
          [] k = "votes" -> AttrN("1")
          [] k = "text" -> AttrS(text)
          [] k = "when" -> AttrN(WhenString(now))]

\* HashMap::insert / HashMap::remove
Insert(m, k, v) == [x \in (DOMAIN m) \cup {k} |-> IF x = k THEN v ELSE m[x]]
Remove(m, k) == [x \in (DOMAIN m) \ {k} |-> m[x]]

\* Backend::ask(eid, qid, text), Local: store the question under its id.
Ask(qid, text, now) ==
    /\ store' = Insert(store, qid, QuestionRecord("e1", qid, text, now))
    /\ asked' = Insert(asked, qid, text)
    /\ qids' = <<>>
    /\ out' = None
    /\ repeat' = FALSE
    /\ UNCHANGED <<handlerVars, remoteVars, concVars>>

\* Backend::delete, Local: the question leaves the table.
Delete(qid) ==
    /\ qid \in DOMAIN store
    /\ store' = Remove(store, qid)
    /\ asked' = Remove(asked, qid)
    /\ qids' = <<>>
    /\ out' = None
    /\ repeat' = FALSE
    /\ UNCHANGED <<handlerVars, remoteVars, concVars>>

\* Mutant: the lookup goes through entry(qid).or_default() and so keys every
\* requested id that was absent.
QuestionsLocalInserting(qs) ==
    /\ qids' = qs
    /\ out' = Some(LocalQuestions(store, qs))
    /\ repeat' = (out # None /\ qids = qs)
    /\ store' = [q \in (DOMAIN store) \cup {qs[i] : i \in 1..Len(qs)} |->
                    IF q \in DOMAIN store THEN store[q] ELSE <<>>]
    /\ UNCHANGED asked
    /\ UNCHANGED <<handlerVars, remoteVars, concVars>>

\* Backend::questions(qids), Local: lock, look up, build the output, unlock.
\* The table is borrowed mutably but not written.
QuestionsLocal(qs) ==
    /\ qids' = qs
    /\ out' = Some(LocalQuestions(store, qs))
    /\ repeat' = (out # None /\ qids = qs)
    /\ UNCHANGED <<store, asked>>
    /\ UNCHANGED <<handlerVars, remoteVars, concVars>>

Next ==
    \/ \E q \in Uuids, t \in Texts, now \in Times : Ask(q, t, now)
    \/ \E q \in Uuids : Delete(q)
    \/ \E qs \in Requests : QuestionsLocal(qs)

Spec == Init /\ [][Next]_vars

\* ------------------------------------------- Backend::questions, Dynamo
\* The request handed to batch_get_item(): table, keys and projection.
BatchGetRequest(qs) ==
    [table |-> "questions",
     attrs |-> KeysAndAttributes(
                 Some([i \in 1..Len(qs) |-> KeyTuple(qs[i])]),
                 Some("id,#text,#when"),
                 Some([n \in {"#text", "#when"} |->
                         IF n = "#text" THEN "text" ELSE "when"]))]

\* One item of a response, from optional id, text and when attributes.
Item(i, t, w) ==
    [k \in {f \in {"id", "text", "when"} :
              \/ f = "id" /\ i # None
              \/ f = "text" /\ t # None
              \/ f = "when" /\ w # None} |->
        IF k = "id" THEN i[1] ELSE IF k = "text" THEN t[1] ELSE w[1]]

GoodId == Some(AttrS(UuidToString(1)))
GoodText == Some(AttrS("hello world"))
GoodWhen == Some(AttrN("1"))

\* The items the remote table may hold: the store is outside the program, so
\* an item may lack an attribute or carry one of another type.
WireItems ==
    {Item(i, GoodText, GoodWhen) :
        i \in {GoodId, Some(AttrS(UuidAltString(2))), None, Some(AttrN("1")),
               Some(AttrS("zz"))}}
    \cup {Item(GoodId, t, GoodWhen) : t \in {None, Some(AttrN("1"))}}
    \cup {Item(GoodId, GoodText, w) :
            w \in {Some(AttrN("+1")), None, Some(AttrS("1")), Some(AttrN("-1"))}}

ItemLists == UNION {[1..n -> WireItems] : n \in 0..MaxRecs}

\* Every outcome of .send().await: a transport or service failure, or an
\* output whose responses and unprocessed keys are the store's choice.
StoreOutcomes ==
    {Err("DispatchFailure")}
    \cup {Ok(BatchGetItemOutput(r, u)) :
            r \in {None, Some(<<>>), Some([tbl \in {"events"} |-> <<>>])}
                  \cup {Some([tbl \in {"questions"} |-> l]) : l \in ItemLists},
            u \in {None,
                   Some([tbl \in {"questions"} |->
                           BatchGetRequest(<<1>>).attrs])}}

\* Mutant: unprocessed keys the store reports are resubmitted once.
DynamoReceiveRetry(outcome) ==
    /\ backend = "Dynamo"
    /\ rpc = "await"
    /\ reply' = Some(outcome)
    /\ IF outcome.ok # None /\ outcome.ok[1].unprocessed_keys # None /\ Len(sent) < 2
       THEN /\ sent' = Append(sent, [table |-> "questions",
                                     attrs |-> outcome.ok[1].unprocessed_keys[1]["questions"]])
            /\ UNCHANGED <<rpc, out>>
       ELSE /\ out' = Some(outcome)
            /\ rpc' = "done"
            /\ UNCHANGED sent
    /\ UNCHANGED <<store, asked, qids, repeat, handlerVars, concVars>>

\* Backend::questions(qids), Dynamo: build the keys and issue the call.
DynamoSend(qs) ==
    /\ backend = "Dynamo"
    /\ rpc = "idle"
    /\ qids' = qs
    /\ sent' = Append(sent, BatchGetRequest(qs))
    /\ rpc' = "await"
    /\ UNCHANGED <<store, asked, out, repeat, reply, handlerVars, concVars>>

\* Backend::questions(qids), Dynamo: .send().await completes and its value
\* is the value of the match arm.
DynamoReceive(outcome) ==
    /\ backend = "Dynamo"
    /\ rpc = "await"
    /\ reply' = Some(outcome)
    /\ out' = Some(outcome)
    /\ rpc' = "done"
    /\ UNCHANGED <<store, asked, qids, repeat, sent, handlerVars, concVars>>

InitDynamo ==
    /\ InitLocal
    /\ backend = "Dynamo"
    /\ InitHandler
    /\ InitRemote
    /\ InitConc

NextRemote ==
    \/ /\ rpc = "idle"
       /\ \E qs \in Requests : DynamoSend(qs)
    \/ /\ rpc = "await"
       /\ \E o \in StoreOutcomes : DynamoReceive(o)

SpecRemote == InitDynamo /\ [][NextRemote]_vars

\* ------------------------------------------------- the handler `questions`
\* Result<Json<Value>, StatusCode>
HOk(body) == [status |-> "OK", body |-> Some(body)]
HErr(code) == [status |-> code, body |-> None]

\* The path segments qids.split(',') yields: canonical and upper-case uuids
\* and a segment that is no uuid.  split yields at least one segment.
Segments == {UuidToString(q) : q \in Uuids} \cup {UuidAltString(1), "zz"}
Paths == UNION {[1..n -> Segments] : n \in 1..MaxPath}

\* qids.split(',').map(Uuid::parse_str).collect::<Result<Vec<_>, _>>().ok()
ParsePath(segs) ==
    IF \E i \in 1..Len(segs) : UuidParseStr(segs[i]) = None
    THEN None
    ELSE Some([i \in 1..Len(segs) |-> UuidParseStr(segs[i])[1]])

\* v.as_s().ok() / v.as_n().ok() on an optional attribute
AsS(rec, k) == IF k \in DOMAIN rec /\ rec[k].t = "S" THEN Some(rec[k].v) ELSE None
AsN(rec, k) == IF k \in DOMAIN rec /\ rec[k].t = "N" THEN Some(rec[k].v) ELSE None

\* Mutant: a when that does not decode is replaced by 0 (unwrap_or_default).
DecodeItemDefaulting(q) ==
    LET qid == IF AsS(q, "id") = None THEN None ELSE UuidParseStr(AsS(q, "id")[1])
        text == AsS(q, "text")
        when == IF AsN(q, "when") = None THEN None ELSE ParseUsize(AsN(q, "when")[1])
    IN IF qid # None /\ text # None
       THEN Some([key |-> UuidToString(qid[1]),
                  value |-> [text |-> text[1],
                             when |-> IF when = None THEN 0 ELSE when[1]]])
       ELSE None

\* The closure over one item: Some(key, value), or None for Err(500).
DecodeItem(q) ==
    LET qid == IF AsS(q, "id") = None THEN None ELSE UuidParseStr(AsS(q, "id")[1])
        text == AsS(q, "text")
        when == IF AsN(q, "when") = None THEN None ELSE ParseUsize(AsN(q, "when")[1])
    IN IF qid # None /\ text # None /\ when # None
       THEN Some([key |-> UuidToString(qid[1]),
                  value |-> [text |-> text[1], when |-> when[1]]])
       ELSE None

\* .collect::<Result<_, _>>()? into a JSON object: the first Err ends it; of
\* two items with one key the later stays.
DecodeItems(t) ==
    IF \E i \in 1..Len(t) : DecodeItem(t[i]) = None
    THEN HErr("INTERNAL_SERVER_ERROR")
    ELSE HOk([k \in {DecodeItem(t[i])[1].key : i \in 1..Len(t)} |->
                LET last == CHOOSE i \in 1..Len(t) :
                        /\ DecodeItem(t[i])[1].key = k
                        /\ \A j \in (i + 1)..Len(t) : DecodeItem(t[j])[1].key # k
                IN DecodeItem(t[last])[1].value])

\* The handler's match on the backend's result.
Respond(result) ==
    IF result.ok = None
    THEN HErr("INTERNAL_SERVER_ERROR")
    ELSE LET v == result.ok[1]
         IN IF v.responses = None \/ DOMAIN v.responses[1] = {}
            THEN HErr("NOT_FOUND")
            ELSE IF "questions" \notin DOMAIN v.responses[1]
                 THEN HErr("INTERNAL_SERVER_ERROR")
                 ELSE DecodeItems(v.responses[1]["questions"])

\* dynamo.questions(&qids).await as the handler sees it: the Local lookup, or
\* the outcome of the remote call.
BackendQuestions(qs, outcome) ==
    IF backend = "Local" THEN LocalQuestions(store, qs) ELSE outcome

\* GET /questions/:qids: parse the ids, ask the backend, render the result.
HandlerQuestions(path, outcome) ==
    /\ hpc = "idle"
    /\ hpc' = "done"
    /\ IF ParsePath(path) = None
       THEN /\ resp' = Some(HErr("BAD_REQUEST"))
            /\ UNCHANGED <<qids, out>>
       ELSE /\ qids' = ParsePath(path)[1]
            /\ out' = Some(BackendQuestions(ParsePath(path)[1], outcome))
            /\ resp' = Some(Respond(BackendQuestions(ParsePath(path)[1], outcome)))
    /\ repeat' = FALSE
    /\ UNCHANGED <<store, asked, backend, remoteVars, concVars>>

InitEither ==
    /\ InitLocal
    /\ backend \in {"Local", "Dynamo"}
    /\ InitHandler
    /\ InitRemote
    /\ InitConc

NextHandler ==
    \/ /\ backend = "Local"
       /\ hpc = "idle"
       /\ \E q \in Uuids, t \in Texts, now \in Times : Ask(q, t, now)
    \/ /\ backend = "Local"
       /\ hpc = "idle"
       /\ \E q \in Uuids : Delete(q)
    \/ /\ hpc = "idle"
       /\ \E p \in Paths :
            \E o \in (IF backend = "Dynamo" THEN StoreOutcomes ELSE {Err("unused")}) :
               HandlerQuestions(p, o)

SpecHandler == InitEither /\ [][NextHandler]_vars

\* The handler over the mock backend alone.
SpecMockHandler == Init /\ [][NextHandler]_vars

\* ------------------------------------- concurrent calls on Backend::Local
\* The requests and writes the concurrent tasks draw from.
ConcRequests == {<<1>>, <<1, 2>>, <<2, 1, 1>>}
ConcIds == {1, 2}

\* Mutant: lock() returns although another task holds the mutex.
RLockBarging(p) ==
    /\ pc[p] = "lock"
    /\ mutex' = Some(p)
    /\ snap' = [snap EXCEPT ![p] = store]
    /\ pc' = [pc EXCEPT ![p] = "scan"]
    /\ UNCHANGED <<mockVars, handlerVars, remoteVars, creq, cunp, cout, ops>>

\* A task calls backend.questions(qids) and reaches local.lock().
RCall(p, qs) ==
    /\ pc[p] \in {"idle", "done"}
    /\ ops < MaxOps
    /\ ops' = ops + 1
    /\ creq' = [creq EXCEPT ![p] = qs]
    /\ cout' = [cout EXCEPT ![p] = None]
    /\ pc' = [pc EXCEPT ![p] = "lock"]
    /\ UNCHANGED <<mockVars, handlerVars, remoteVars, mutex, snap, cunp>>

\* local.lock().unwrap(): returns once no task holds the mutex.
RLock(p) ==
    /\ pc[p] = "lock"
    /\ mutex = None
    /\ mutex' = Some(p)
    /\ snap' = [snap EXCEPT ![p] = store]
    /\ pc' = [pc EXCEPT ![p] = "scan"]
    /\ UNCHANGED <<mockVars, handlerVars, remoteVars, creq, cunp, cout, ops>>

\* let unprocessed = ...: the first pass over the ids.
RScan(p) ==
    /\ pc[p] = "scan"
    /\ cunp' = [cunp EXCEPT ![p] = UnprocessedField(store, creq[p])]
    /\ pc' = [pc EXCEPT ![p] = "build"]
    /\ UNCHANGED <<mockVars, handlerVars, remoteVars, mutex, creq, snap, cout, ops>>

\* Ok(BatchGetItemOutput::builder()...build()): the second pass over the ids;
\* the guard drops at the end of the arm and the call returns.
RBuild(p) ==
    /\ pc[p] = "build"
    /\ cout' = [cout EXCEPT ![p] =
                  Some(Ok(BatchGetItemOutput(
                     Some([tbl \in {"questions"} |-> ResponseItems(store, creq[p])]),
                     cunp[p])))]
    /\ mutex' = None
    /\ pc' = [pc EXCEPT ![p] = "done"]
    /\ UNCHANGED <<mockVars, handlerVars, remoteVars, creq, snap, cunp, ops>>

\* A writer (ask, delete) reaches local.lock().
WCall(w) ==
    /\ pc[w] = "idle"
    /\ ops < MaxOps
    /\ ops' = ops + 1
    /\ pc' = [pc EXCEPT ![w] = "lock"]
    /\ UNCHANGED <<mockVars, handlerVars, remoteVars, mutex, creq, snap, cunp, cout>>

\* The writer's lock().
WLock(w) ==
    /\ pc[w] = "lock"
    /\ mutex = None
    /\ mutex' = Some(w)
    /\ pc' = [pc EXCEPT ![w] = "write"]
    /\ UNCHANGED <<mockVars, handlerVars, remoteVars, creq, snap, cunp, cout, ops>>

\* The writer inserts or removes a question and drops the guard.
WWrite(w, q, del) ==
    /\ pc[w] = "write"
    /\ IF del
       THEN /\ store' = Remove(store, q)
            /\ asked' = Remove(asked, q)
       ELSE /\ store' = Insert(store, q, QuestionRecord("e1", q, "hello world", 0))
            /\ asked' = Insert(asked, q, "hello world")
    /\ mutex' = None
    /\ pc' = [pc EXCEPT ![w] = "idle"]
    /\ UNCHANGED <<qids, out, repeat, handlerVars, remoteVars, creq, snap, cunp, cout, ops>>

ReaderStep(p) ==
    \/ \E qs \in ConcRequests : RCall(p, qs)
    \/ RLock(p)
    \/ RScan(p)
    \/ RBuild(p)

WriterStep(w) ==
    \/ WCall(w)
    \/ WLock(w)
    \/ \E q \in ConcIds, del \in BOOLEAN : WWrite(w, q, del)

NextConc ==
    \/ \E p \in Readers : ReaderStep(p)
    \/ \E w \in Writers : WriterStep(w)

\* A task that is past lock() runs to the end of its synchronous section, and
\* a task blocked in lock() is woken once the mutex stays free.
FairConc ==
    /\ \A p \in Readers : WF_vars(RLock(p) \/ RScan(p) \/ RBuild(p))
    /\ \A w \in Writers : WF_vars(WLock(w) \/ \E q \in ConcIds, del \in BOOLEAN : WWrite(w, q, del))

SpecConc == Init /\ [][NextConc]_vars /\ FairConc

\* ------------------------------------------------- the latest call's result
\* Meaningful when out # None and the call returned Ok.
Output == out[1].ok[1]
Returned == out # None /\ out[1].ok # None
RespItems ==
    IF Output.responses # None /\ "questions" \in DOMAIN Output.responses[1]
    THEN Output.responses[1]["questions"] ELSE <<>>
UnprocKeys ==
    IF Output.unprocessed_keys # None
       /\ "questions" \in DOMAIN Output.unprocessed_keys[1]
       /\ Output.unprocessed_keys[1]["questions"].keys # None
    THEN Output.unprocessed_keys[1]["questions"].keys[1] ELSE <<>>

Occurrences(qs, q) == Cardinality({i \in 1..Len(qs) : qs[i] = q})
RecordsFor(items, q) ==
    Cardinality({i \in 1..Len(items) :
        "id" \in DOMAIN items[i] /\ items[i]["id"] = AttrS(UuidToString(q))})
KeysFor(keys, q) == Cardinality({i \in 1..Len(keys) : keys[i] = KeyTuple(q)})

\* C1: every occurrence of a keyed id gives exactly one record in
\* responses["questions"] and no unprocessed key; every occurrence of an id
\* that is not keyed gives exactly one key tuple {id} and no record; the two
\* lists are disjoint by id and their lengths sum to the request's length.
C1_Partition ==
    out # None =>
        /\ Returned
        /\ \A q \in Uuids :
             /\ q \in DOMAIN store =>
                  /\ RecordsFor(RespItems, q) = Occurrences(qids, q)
                  /\ KeysFor(UnprocKeys, q) = 0
             /\ q \notin DOMAIN store =>
                  /\ KeysFor(UnprocKeys, q) = Occurrences(qids, q)
                  /\ RecordsFor(RespItems, q) = 0
        /\ \A i \in 1..Len(UnprocKeys) : \E q \in Uuids : UnprocKeys[i] = KeyTuple(q)
        /\ Len(RespItems) + Len(UnprocKeys) = Len(qids)

C1_Witness ==
    /\ Returned
    /\ \E i, j, k \in 1..Len(qids) :
         /\ i # j
         /\ qids[i] = qids[j]
         /\ qids[i] \notin DOMAIN store
         /\ qids[k] \in DOMAIN store
    /\ Len(RespItems) = 1 /\ Len(UnprocKeys) = 2

\* C2: unprocessed_keys is present iff some requested id is not keyed; it is
\* None when every requested id is keyed (the empty request included) and is
\* never present with an empty mapping or an empty key list.
C2_UnprocessedPresence ==
    out # None =>
        /\ Returned
        /\ (Output.unprocessed_keys # None)
             <=> (\E i \in 1..Len(qids) : qids[i] \notin DOMAIN store)
        /\ Output.unprocessed_keys # None =>
             /\ DOMAIN Output.unprocessed_keys[1] = {"questions"}
             /\ Output.unprocessed_keys[1]["questions"].keys # None
             /\ Output.unprocessed_keys[1]["questions"].keys[1] # <<>>

C2_Witness ==
    /\ Returned
    /\ qids # <<>>
    /\ \A i \in 1..Len(qids) : qids[i] \in DOMAIN store
    /\ Output.unprocessed_keys = None

C4_RoundTrip ==
    (/\ out # None
     /\ Len(qids) = 2 /\ qids[1] # qids[2]
     /\ \A i \in 1..2 : qids[i] \in DOMAIN asked) =>
        /\ Returned
        /\ Output.unprocessed_keys = None
        /\ Len(RespItems) = 2
        /\ \A i \in 1..2 :
             /\ RecordsFor(RespItems, qids[i]) = 1
             /\ \A j \in 1..Len(RespItems) :
                  ("id" \in DOMAIN RespItems[j]
                   /\ RespItems[j]["id"] = AttrS(UuidToString(qids[i]))) =>
                      /\ {"text", "when"} \subseteq DOMAIN RespItems[j]
                      /\ RespItems[j]["text"] = AttrS(asked[qids[i]])
                      /\ RespItems[j]["when"].t = "N"
                      /\ ParseUsize(RespItems[j]["when"].v) # None

C4_Witness ==
    /\ Returned
    /\ Len(qids) = 2 /\ qids[1] # qids[2]
    /\ \A i \in 1..2 : qids[i] \in DOMAIN asked
    /\ asked[qids[1]] = "hello world" /\ asked[qids[2]] = "hello moon"
    /\ Len(RespItems) = 2

\* C5: a call leaves the table unchanged, and a call that repeats the one
\* before it, same ids and no writer in between, returns the same responses
\* and the same unprocessed_keys.
C5_Idempotent ==
    [][out' # None =>
         /\ store' = store
         /\ (out # None /\ qids' = qids) => out' = out]_vars

C5_Witness ==
    /\ repeat /\ Returned
    /\ RespItems # <<>> /\ UnprocKeys # <<>>

\* C6: the call returns Ok for every request and every table content; ids
\* that are not keyed show only in unprocessed_keys.
C6_NeverErr ==
    out # None =>
        /\ out[1].ok # None
        /\ out[1].err = None

C6_Witness ==
    /\ Returned
    /\ qids # <<>>
    /\ \A i \in 1..Len(qids) : qids[i] \notin DOMAIN store
    /\ RespItems = <<>>
    /\ Len(UnprocKeys) = Len(qids)

\* C7: at most one task is inside its table-access step at a time; every
\* call that reaches lock() acquires it and returns; and the whole result of
\* a call is what a call running alone returns on the table as it was when
\* the lock was acquired.
InTable == {p \in Tasks : pc[p] \in {"scan", "build", "write"}}

C7_Serialized ==
    /\ [](Cardinality(InTable) <= 1)
    /\ [](\A p \in Readers :
            pc[p] = "done" => cout[p] = Some(LocalQuestions(snap[p], creq[p])))
    /\ \A p \in Readers : (pc[p] = "lock") ~> (pc[p] = "done")

C7_Witness ==
    /\ pc["r1"] = "done"
    /\ pc["r2"] = "lock"
    /\ pc["w1"] = "write"
    /\ mutex = Some("w1")
    /\ creq["r1"] = <<2, 1, 1>>
    /\ cout["r1"][1].ok[1].unprocessed_keys # None
    /\ cout["r1"][1].ok[1].responses[1]["questions"] # <<>>

\* C8: one invocation on the remote adapter issues exactly one batch-get call,
\* for the table "questions" with one key per requested id, and returns that
\* call's outcome unmodified: it resubmits no unprocessed keys and retries no
\* failure, which comes back as an error.
C8_SingleRoundTrip ==
    /\ rpc = "idle" => sent = <<>>
    /\ rpc # "idle" =>
         /\ Len(sent) = 1
         /\ sent[1].table = "questions"
         /\ sent[1].attrs.keys = Some([i \in 1..Len(qids) |-> KeyTuple(qids[i])])
    /\ rpc = "await" => out = None
    /\ rpc = "done" =>
         /\ reply # None
         /\ out = reply
         /\ reply[1].ok = None => out[1].err # None

C8_Witness ==
    /\ rpc = "done"
    /\ Len(qids) = 2
    /\ Returned
    /\ Output.unprocessed_keys # None
    /\ Len(RespItems) = 1
    /\ Len(sent) = 1

\* An item that lacks id, text or when, or carries one of the wrong type: id
\* no string holding a uuid, text no string, when no number that parses as a
\* non-negative integer.
Malformed(item) ==
    \/ "id" \notin DOMAIN item
    \/ item["id"].t # "S"
    \/ UuidParseStr(item["id"].v) = None
    \/ "text" \notin DOMAIN item
    \/ item["text"].t # "S"
    \/ "when" \notin DOMAIN item
    \/ item["when"].t # "N"
    \/ ParseUsize(item["when"].v) = None

\* C9: whenever an item of the backend's responses["questions"] is malformed,
\* the handler returns INTERNAL_SERVER_ERROR and no body: the item is neither
\* left out of a success body nor patched with a default.
C9_DataIntegrity ==
    (/\ hpc = "done"
     /\ Returned
     /\ \E i \in 1..Len(RespItems) : Malformed(RespItems[i])) =>
        /\ resp # None
        /\ resp[1].status = "INTERNAL_SERVER_ERROR"
        /\ resp[1].body = None

C9_Witness ==
    /\ hpc = "done"
    /\ Returned
    /\ Len(RespItems) = 2
    /\ ~Malformed(RespItems[1])
    /\ Malformed(RespItems[2])
    /\ "when" \in DOMAIN RespItems[2]
    /\ resp[1].status = "INTERNAL_SERVER_ERROR"

\* C10: when the ids parse and the backend call succeeds but no question
\* record was found, the handler answers NOT_FOUND, never a success body.
C10_NotFound ==
    (/\ hpc = "done"
     /\ Returned
     /\ \A i \in 1..Len(qids) : qids[i] \notin DOMAIN store) =>
        /\ resp # None
        /\ resp[1].status = "NOT_FOUND"

====
